---- MODULE Spec2Model ----
(***************************************************************************)
(* stlish::array<T, N>, stlish::array_iterator<T, IsConst> and             *)
(* stlish::reverse_iterator<Iter> (include/stlish/array.hpp,               *)
(* include/stlish/iterator.hpp).                                           *)
(*                                                                         *)
(* A pointer into the array's storage is the integer offset from _data:    *)
(* _data itself is 0, _data + N is N.  A reference to an element is the    *)
(* offset of its slot.  An iterator value is a record                      *)
(*   [kind |-> "pos", ptr_ |-> offset, IsConst |-> flag]   array_iterator  *)
(*   [kind |-> "rev", current_ |-> iterator]               reverse_iterator*)
(* so that reverse_iterator<Iter> wraps any iterator, as the template does.*)
(***************************************************************************)
EXTENDS Integers, Sequences, FiniteSets, TLC

\* Largest template argument N explored.
MaxN == 3

VARIABLES
    N,        \* the template argument N of array<T, N>
    _data,    \* array::_data, slot offset -> value
    it,       \* a position iterator of the caller (array::iterator)
    rit,      \* a reverse adapter of the caller (array::reverse_iterator)
    last,     \* the last iterator operation evaluated: op, operand, n, result
    pc,       \* "idle", or the position of the caller inside the reverse loop
    lit,      \* the loop variable of 'for (it = rbegin(); it != rend(); ++it)'
    visited,  \* the slots the loop dereferenced, in order
    incs,     \* the increments the loop made
    other_data, \* other._data: the storage of a second array<T, N>, the operand of swap
    scope,    \* which arrays exist: "both", "a" (other destroyed) or "none"
    live,     \* Counted::live, the element objects constructed and not destroyed
    dtors,    \* the element destructors run by the last array destruction
    ops,      \* the member calls the caller has made
    cpc,      \* "idle", or the member function the caller is inside
    fi,       \* the loop variable i of the running fill or swap
    fval,     \* the argument of the running fill
    copies_until_throw,  \* ThrowingCopy::copies_until_throw
    writes,   \* the slots the last fill or swap assigned, in order
    touched,  \* the slots of _data that member calls have read or written
    old_data, \* _data when the last member call began
    old_other,\* other_data when the last member call began
    prev,     \* the member call before the last one
    kept,     \* the index of the position the caller obtained before its calls
    p0        \* the data() the caller obtained before its calls

\* The state of the iterator expressions, and the state of the member calls.
ivars == <<it, rit, pc, lit, visited, incs>>
cvars == <<other_data, scope, live, dtors, ops, cpc, fi, fval, copies_until_throw,
           writes, touched, old_data, old_other, prev, kept, p0>>
vars == <<N, _data, last, ivars, cvars>>

----------------------------------------------------------------------------
(* array.hpp: storage *)

\* value_type _data[(N == 0) ? 1 : N];
StorageLen(n) == IF n = 0 THEN 1 ELSE n

\* array::operator[](pos): return _data[pos];
array_subscript(pos) == 0 + pos

----------------------------------------------------------------------------
(* iterator.hpp: array_iterator<T, IsConst> *)

\* explicit array_iterator(pointer p) : ptr_(p)
array_iterator(p, c) == [kind |-> "pos", ptr_ |-> p, IsConst |-> c]

\* pointer base() const { return ptr_; }
array_iterator_base(i) == i.ptr_

\* enable_if_t<!WasConst && IsConst>: the converting constructor exists only
\* from non-const to const; the same flavour copies.
array_iterator_convertible(WasConst, IsConst) ==
    (WasConst = IsConst) \/ (~WasConst /\ IsConst)

\* A faulty conversion: the const copy forgets the position.
array_iterator_conv_reset(other, IsConst) == array_iterator(0, IsConst)

\* array_iterator(const array_iterator<T, WasConst>& other) : ptr_(other.base())
array_iterator_conv(other, IsConst) ==
    array_iterator(array_iterator_base(other), IsConst)

\* reference operator*() const { return *ptr_; }
array_iterator_deref(i) == i.ptr_

\* pointer operator->() const { return ptr_; }
array_iterator_arrow(i) == i.ptr_

\* A faulty subscript: the offset taken as a magnitude.
array_iterator_subscript_abs(i, n) == IF n < 0 THEN i.ptr_ - n ELSE i.ptr_ + n

\* reference operator[](difference_type n) const { return ptr_[n]; }
array_iterator_subscript(i, n) == i.ptr_ + n

\* operator++() { ++ptr_; return *this; }
array_iterator_preinc(i) == [i EXCEPT !.ptr_ = @ + 1]

\* operator--() { --ptr_; return *this; }
array_iterator_predec(i) == [i EXCEPT !.ptr_ = @ - 1]

\* A faulty operator++(int) that returns the position after the step.
array_iterator_postinc_after(i) ==
    [self |-> array_iterator_preinc(i), ret |-> array_iterator_preinc(i)]

\* operator++(int) { auto tmp = *this; ++(*this); return tmp; }
array_iterator_postinc(i) ==
    LET tmp == i IN [self |-> array_iterator_preinc(i), ret |-> tmp]

\* operator--(int) { auto tmp = *this; --(*this); return tmp; }
array_iterator_postdec(i) ==
    LET tmp == i IN [self |-> array_iterator_predec(i), ret |-> tmp]

\* operator+=(difference_type n) { ptr_ += n; return *this; }
array_iterator_pluseq(i, n) == [i EXCEPT !.ptr_ = @ + n]

\* operator-=(difference_type n) { ptr_ -= n; return *this; }
array_iterator_minuseq(i, n) == [i EXCEPT !.ptr_ = @ - n]

\* A faulty it + n: the advanced copy is lost.
array_iterator_plus_drop(i, n) == i

\* operator+(array_iterator it, difference_type n) { it += n; return it; }
array_iterator_plus(i, n) == array_iterator_pluseq(i, n)

\* operator+(difference_type n, array_iterator it) { it += n; return it; }
array_iterator_nplus(n, i) == array_iterator_pluseq(i, n)

\* operator-(array_iterator it, difference_type n) { it -= n; return it; }
array_iterator_minus(i, n) == array_iterator_minuseq(i, n)

\* operator-(array_iterator a, array_iterator b) { return a.ptr_ - b.ptr_; }
array_iterator_diff(a, b) == a.ptr_ - b.ptr_

\* operator==(a, b) { return a.ptr_ == b.ptr_; }
array_iterator_eq(a, b) == a.ptr_ = b.ptr_

\* A faulty operator<=>: equal positions order as less.
array_iterator_cmp_le(a, b) ==
    IF a.ptr_ <= b.ptr_ THEN "less" ELSE "greater"

\* operator<=>(a, b) { return a.ptr_ <=> b.ptr_; }
array_iterator_cmp(a, b) ==
    IF a.ptr_ < b.ptr_ THEN "less"
    ELSE IF a.ptr_ = b.ptr_ THEN "equal" ELSE "greater"

\* The comparison operators the language rewrites from operator<=>.

----------------------------------------------------------------------------
(* iterator.hpp: reverse_iterator<Iter>.  Iter_* is the operation of the    *)
(* wrapped type Iter that the template instantiates: array_iterator's, or   *)
(* reverse_iterator's own when adapters nest.                               *)

RECURSIVE Iter_deref(_), Iter_arrow(_), Iter_preinc(_), Iter_predec(_)
RECURSIVE Iter_pluseq(_, _), Iter_minuseq(_, _), Iter_diff(_, _)
RECURSIVE Iter_eq(_, _), Iter_cmp(_, _)

\* explicit reverse_iterator(Iter it) : current_(it)
reverse_iterator(i) == [kind |-> "rev", current_ |-> i]

\* A faulty base(): the position before the wrapped one.
reverse_iterator_base_prev(r) == Iter_predec(r.current_)

\* Iter base() const { return current_; }
reverse_iterator_base(r) == r.current_

\* make_reverse_iterator(Iter it) { return reverse_iterator<Iter>(it); }
make_reverse_iterator(i) == reverse_iterator(i)

\* requires std::convertible_to<UIter, Iter>, for array_iterator flavours
reverse_iterator_convertible(WasConst, IsConst) ==
    array_iterator_convertible(WasConst, IsConst)

\* reverse_iterator(const reverse_iterator<UIter>& other) : current_(other.base())
reverse_iterator_conv(other, IsConst) ==
    reverse_iterator(array_iterator_conv(reverse_iterator_base(other), IsConst))

\* A faulty operator*: the wrapped position itself is dereferenced.
reverse_iterator_deref_base(r) == Iter_deref(r.current_)

\* operator*() { Iter tmp = current_; --tmp; return *tmp; }
reverse_iterator_deref(r) ==
    LET tmp == Iter_predec(r.current_) IN Iter_deref(tmp)

\* operator->() { Iter tmp = current_; --tmp; return tmp.operator->(); }
reverse_iterator_arrow(r) ==
    LET tmp == Iter_predec(r.current_) IN Iter_arrow(tmp)

\* A faulty operator++: the direction is not reversed.
reverse_iterator_preinc_fwd(r) == [r EXCEPT !.current_ = Iter_preinc(@)]

\* operator++() { --current_; return *this; }
reverse_iterator_preinc(r) == [r EXCEPT !.current_ = Iter_predec(@)]

\* A faulty operator--: it moves the wrapped position as operator++ does.
reverse_iterator_predec_same(r) == [r EXCEPT !.current_ = Iter_predec(@)]

\* operator--() { ++current_; return *this; }
reverse_iterator_predec(r) == [r EXCEPT !.current_ = Iter_preinc(@)]

\* operator++(int) { auto tmp = *this; --current_; return tmp; }
reverse_iterator_postinc(r) ==
    LET tmp == r IN [self |-> [r EXCEPT !.current_ = Iter_predec(@)], ret |-> tmp]

\* operator--(int) { auto tmp = *this; ++current_; return tmp; }
reverse_iterator_postdec(r) ==
    LET tmp == r IN [self |-> [r EXCEPT !.current_ = Iter_preinc(@)], ret |-> tmp]

\* A faulty operator+=: the sign is not reversed.
reverse_iterator_pluseq_fwd(r, n) == [r EXCEPT !.current_ = Iter_pluseq(@, n)]

\* operator+=(difference_type n) { current_ -= n; return *this; }
reverse_iterator_pluseq(r, n) == [r EXCEPT !.current_ = Iter_minuseq(@, n)]

\* operator-=(difference_type n) { current_ += n; return *this; }
reverse_iterator_minuseq(r, n) == [r EXCEPT !.current_ = Iter_pluseq(@, n)]

\* operator+(reverse_iterator it, difference_type n) { it += n; return it; }
reverse_iterator_plus(r, n) == reverse_iterator_pluseq(r, n)

\* operator+(difference_type n, reverse_iterator it) { it += n; return it; }
reverse_iterator_nplus(n, r) == reverse_iterator_pluseq(r, n)

\* operator-(reverse_iterator it, difference_type n) { it -= n; return it; }
reverse_iterator_minus(r, n) == reverse_iterator_minuseq(r, n)

\* operator[](difference_type n) { return *(*this + n); }
reverse_iterator_subscript(r, n) ==
    reverse_iterator_deref(reverse_iterator_plus(r, n))

\* A faulty operator-: the operands are not swapped.
reverse_iterator_diff_naive(a, b) == Iter_diff(a.current_, b.current_)

\* operator-(a, b) { return b.current_ - a.current_; }
reverse_iterator_diff(a, b) == Iter_diff(b.current_, a.current_)

\* operator==(a, b) { return a.current_ == b.base(); }
reverse_iterator_eq(a, b) == Iter_eq(a.current_, reverse_iterator_base(b))

\* A faulty operator<=>: the operands are not flipped.
reverse_iterator_cmp_noflip(a, b) == Iter_cmp(a.current_, reverse_iterator_base(b))

\* operator<=>(a, b) { return b.base() <=> a.current_; }
reverse_iterator_cmp(a, b) == Iter_cmp(reverse_iterator_base(b), a.current_)

\* The instantiation of each operation for the wrapped type.
Iter_deref(i) ==
    IF i.kind = "pos" THEN array_iterator_deref(i) ELSE reverse_iterator_deref(i)
Iter_arrow(i) ==
    IF i.kind = "pos" THEN array_iterator_arrow(i) ELSE reverse_iterator_arrow(i)
Iter_preinc(i) ==
    IF i.kind = "pos" THEN array_iterator_preinc(i) ELSE reverse_iterator_preinc(i)
Iter_predec(i) ==
    IF i.kind = "pos" THEN array_iterator_predec(i) ELSE reverse_iterator_predec(i)
Iter_pluseq(i, n) ==
    IF i.kind = "pos" THEN array_iterator_pluseq(i, n)
    ELSE reverse_iterator_pluseq(i, n)
Iter_minuseq(i, n) ==
    IF i.kind = "pos" THEN array_iterator_minuseq(i, n)
    ELSE reverse_iterator_minuseq(i, n)
Iter_diff(a, b) ==
    IF a.kind = "pos" THEN array_iterator_diff(a, b) ELSE reverse_iterator_diff(a, b)
Iter_eq(a, b) ==
    IF a.kind = "pos" THEN array_iterator_eq(a, b) ELSE reverse_iterator_eq(a, b)
Iter_cmp(a, b) ==
    IF a.kind = "pos" THEN array_iterator_cmp(a, b) ELSE reverse_iterator_cmp(a, b)

----------------------------------------------------------------------------
(* array.hpp: iterators of the container; c is the const flavour asked for *)

\* begin() / cbegin(): iterator{_data}
array_begin(c) == array_iterator(0, c)

\* A faulty end() one past the storage, not one past the N elements.
array_end_storage(c) == array_iterator(0 + StorageLen(N), c)
\* end() / cend(): iterator{_data + N}
array_end(c) == array_iterator(0 + N, c)

\* rbegin() / crbegin(): reverse_iterator{end()}
array_rbegin(c) == reverse_iterator(array_end(c))

\* rend() / crend(): reverse_iterator{begin()}
array_rend(c) == reverse_iterator(array_begin(c))

----------------------------------------------------------------------------
(* The caller: a program that owns one array, one iterator and one reverse *)
(* adapter into it, and evaluates one iterator expression per step, within *)
(* the preconditions of section 4.1 (positions stay in [0, N], only        *)
(* positions in [0, N) are dereferenced).                                  *)

NoIter == [kind |-> "none"]
IllFormed == [kind |-> "ill-formed"]
Flavour(c) == [kind |-> "flavour", IsConst |-> c]

Rec(op, arg, arg2, n, res) ==
    [n |-> n, op |-> op, arg |-> arg, arg2 |-> arg2, res |-> res]

\* What evaluating a reference yields: the slot it names and the value there.
\* Reading through a reference.  Every action's guard is the precondition of
\* the operation it calls, so the slot is in storage; 0 is no element value.
Ref(slot) ==
    [slot |-> slot,
     val |-> IF slot \in 0..(StorageLen(N) - 1) THEN _data[slot] ELSE 0]

InRange(p) == p \in 0..N
Derefable(p) == p \in 0..(N - 1)

\* begin() + j, the other operand of a binary expression
Pos(j) == array_iterator_plus(array_begin(FALSE), j)
RPos(j) == reverse_iterator(Pos(j))

Relations(eq, cmp) ==
    [eq |-> eq, cmp |-> cmp, ne |-> ~eq, lt |-> cmp = "less",
     gt |-> cmp = "greater", le |-> cmp # "greater", ge |-> cmp # "less"]

\* value_type _data[(N == 0) ? 1 : N]: the implicit constructor of the
\* aggregate constructs every element of the member array, and the implicit
\* destructor destroys every one of them.
array_construct(n) == StorageLen(n)
array_destroy(n) == StorageLen(n)

\* A faulty array whose storage moves with every member call.
array_data_moved == 0 + ops
\* data() returns _data, the address of the member array: offset 0 of it.
array_data == 0

\* struct ThrowingCopy: inline static int copies_until_throw = 9999.
copies_until_throw_default == 9999

\* The aggregates the caller initialises the array from are the values
\* 1..len, pairwise distinct, in each rotation ({1,2,3}, {2,3,1}, {3,1,2});
\* the second array of the swap tests holds values the first does not:
\* array<int, 3> a = {1, 2, 3}, b = {7, 8, 9}.
Init ==
    /\ N \in 0..MaxN
    /\ _data \in {[i \in 0..(StorageLen(N) - 1) |->
                      ((i + k) % StorageLen(N)) + 1] :
                  k \in 0..(StorageLen(N) - 1)}
    /\ it = array_begin(FALSE)
    /\ rit = array_rbegin(FALSE)
    /\ last = Rec("init", NoIter, NoIter, 0, NoIter)
    /\ pc = "idle"
    /\ lit = NoIter
    /\ visited = <<>>
    /\ incs = 0
    /\ other_data = [i \in 0..(StorageLen(N) - 1) |->
                        _data[i] + StorageLen(N)]
    /\ scope = "both"
    /\ live = array_construct(N) + array_construct(N)
    /\ dtors = 0
    /\ ops = 0
    /\ cpc = "idle"
    /\ fi = 0
    /\ fval = 0
    /\ copies_until_throw = copies_until_throw_default
    /\ writes = <<>>
    /\ touched = {}
    /\ old_data = _data
    /\ old_other = other_data
    /\ prev = Rec("init", NoIter, NoIter, 0, NoIter)
    /\ kept = 0
    /\ p0 = array_data

Idle == pc = "idle"
Index(i) == i.ptr_
BaseIndex(r) == Index(reverse_iterator_base(r))
PosFrame == <<N, _data, rit, pc, lit, visited, incs, cvars>>
RevFrame == <<N, _data, it, pc, lit, visited, incs, cvars>>

(* array_iterator *)
ItBegin ==
    /\ Idle
    /\ it' = array_begin(FALSE)
    /\ last' = Rec("begin", NoIter, NoIter, 0, it')
    /\ UNCHANGED PosFrame
ItEnd ==
    /\ Idle
    /\ it' = array_end(FALSE)
    /\ last' = Rec("end", NoIter, NoIter, 0, it')
    /\ UNCHANGED PosFrame
ItDeref ==
    /\ Idle
    /\ Derefable(Index(it))
    /\ it' = it
    /\ last' = Rec("*it", it, NoIter, 0, Ref(array_iterator_deref(it)))
    /\ UNCHANGED PosFrame
ItSubscript(n) ==
    /\ Idle
    /\ Derefable(Index(it) + n)
    /\ it' = it
    /\ last' = Rec("it[n]", it, NoIter, n, Ref(array_iterator_subscript(it, n)))
    /\ UNCHANGED PosFrame
ItPreInc ==
    /\ Idle
    /\ InRange(Index(it) + 1)
    /\ it' = array_iterator_preinc(it)
    /\ last' = Rec("++it", it, NoIter, 1, it')
    /\ UNCHANGED PosFrame
ItPostInc ==
    /\ Idle
    /\ InRange(Index(it) + 1)
    /\ LET r == array_iterator_postinc(it)
       IN  /\ it' = r.self
           /\ last' = Rec("it++", it, NoIter, 1, r.ret)
           /\ UNCHANGED PosFrame
ItPreDec ==
    /\ Idle
    /\ InRange(Index(it) - 1)
    /\ it' = array_iterator_predec(it)
    /\ last' = Rec("--it", it, NoIter, 1, it')
    /\ UNCHANGED PosFrame
ItPostDec ==
    /\ Idle
    /\ InRange(Index(it) - 1)
    /\ LET r == array_iterator_postdec(it)
       IN  /\ it' = r.self
           /\ last' = Rec("it--", it, NoIter, 1, r.ret)
           /\ UNCHANGED PosFrame
ItPlusEq(n) ==
    /\ Idle
    /\ InRange(Index(it) + n)
    /\ it' = array_iterator_pluseq(it, n)
    /\ last' = Rec("it+=n", it, NoIter, n, it')
    /\ UNCHANGED PosFrame
ItMinusEq(n) ==
    /\ Idle
    /\ InRange(Index(it) - n)
    /\ it' = array_iterator_minuseq(it, n)
    /\ last' = Rec("it-=n", it, NoIter, n, it')
    /\ UNCHANGED PosFrame
ItPlus(n) ==
    /\ Idle
    /\ InRange(Index(it) + n)
    /\ it' = it
    /\ last' = Rec("it+n", it, NoIter, n, array_iterator_plus(it, n))
    /\ UNCHANGED PosFrame
ItNPlus(n) ==
    /\ Idle
    /\ InRange(Index(it) + n)
    /\ it' = it
    /\ last' = Rec("n+it", it, NoIter, n, array_iterator_nplus(n, it))
    /\ UNCHANGED PosFrame
ItMinus(n) ==
    /\ Idle
    /\ InRange(Index(it) - n)
    /\ it' = it
    /\ last' = Rec("it-n", it, NoIter, n, array_iterator_minus(it, n))
    /\ UNCHANGED PosFrame
ItDiff(j) ==
    /\ Idle
    /\ it' = it
    /\ last' = Rec("a-b", it, Pos(j), j, array_iterator_diff(it, Pos(j)))
    /\ UNCHANGED PosFrame
ItCompare(j) ==
    /\ Idle
    /\ it' = it
    /\ last' = Rec("a?b", it, Pos(j), j, Relations(array_iterator_eq(it, Pos(j)), array_iterator_cmp(it, Pos(j))))
    /\ UNCHANGED PosFrame
\* Iter2 x = src, for src of flavour from and Iter2 of flavour to
ItConvert(from, to) ==
    /\ Idle
    /\ LET src == IF from THEN array_iterator_conv(it, TRUE) ELSE it
       IN  last' = Rec("conv", src, Flavour(to), 0,
                       IF array_iterator_convertible(from, to)
                       THEN array_iterator_conv(src, to) ELSE IllFormed)
    /\ UNCHANGED <<it, PosFrame>>

(* reverse_iterator *)
RevBegin ==
    /\ Idle
    /\ rit' = array_rbegin(FALSE)
    /\ last' = Rec("rbegin", NoIter, NoIter, 0, rit')
    /\ UNCHANGED RevFrame
RevEnd ==
    /\ Idle
    /\ rit' = array_rend(FALSE)
    /\ last' = Rec("rend", NoIter, NoIter, 0, rit')
    /\ UNCHANGED RevFrame
RevWrap(j) ==
    /\ Idle
    /\ rit' = reverse_iterator(Pos(j))
    /\ last' = Rec("reverse_iterator", Pos(j), NoIter, j, rit')
    /\ UNCHANGED RevFrame
RevMake(j) ==
    /\ Idle
    /\ rit' = make_reverse_iterator(Pos(j))
    /\ last' = Rec("make_reverse_iterator", Pos(j), NoIter, j, rit')
    /\ UNCHANGED RevFrame
RevBase ==
    /\ Idle
    /\ rit' = rit
    /\ last' = Rec("base", rit, NoIter, 0, reverse_iterator_base(rit))
    /\ UNCHANGED RevFrame
RevDeref ==
    /\ Idle
    /\ Derefable(BaseIndex(rit) - 1)
    /\ rit' = rit
    /\ last' = Rec("*r", rit, NoIter, 0, Ref(reverse_iterator_deref(rit)))
    /\ UNCHANGED RevFrame
RevSubscript(n) ==
    /\ Idle
    /\ Derefable(BaseIndex(rit) - 1 - n)
    /\ rit' = rit
    /\ last' = Rec("r[n]", rit, NoIter, n, Ref(reverse_iterator_subscript(rit, n)))
    /\ UNCHANGED RevFrame
RevPreInc ==
    /\ Idle
    /\ InRange(BaseIndex(rit) - 1)
    /\ rit' = reverse_iterator_preinc(rit)
    /\ last' = Rec("++r", rit, NoIter, 1, rit')
    /\ UNCHANGED RevFrame
RevPostInc ==
    /\ Idle
    /\ InRange(BaseIndex(rit) - 1)
    /\ LET r == reverse_iterator_postinc(rit)
       IN  /\ rit' = r.self
           /\ last' = Rec("r++", rit, NoIter, 1, r.ret)
           /\ UNCHANGED RevFrame
RevPreDec ==
    /\ Idle
    /\ InRange(BaseIndex(rit) + 1)
    /\ rit' = reverse_iterator_predec(rit)
    /\ last' = Rec("--r", rit, NoIter, 1, rit')
    /\ UNCHANGED RevFrame
RevPostDec ==
    /\ Idle
    /\ InRange(BaseIndex(rit) + 1)
    /\ LET r == reverse_iterator_postdec(rit)
       IN  /\ rit' = r.self
           /\ last' = Rec("r--", rit, NoIter, 1, r.ret)
           /\ UNCHANGED RevFrame
RevPlusEq(n) ==
    /\ Idle
    /\ InRange(BaseIndex(rit) - n)
    /\ rit' = reverse_iterator_pluseq(rit, n)
    /\ last' = Rec("r+=n", rit, NoIter, n, rit')
    /\ UNCHANGED RevFrame
RevMinusEq(n) ==
    /\ Idle
    /\ InRange(BaseIndex(rit) + n)
    /\ rit' = reverse_iterator_minuseq(rit, n)
    /\ last' = Rec("r-=n", rit, NoIter, n, rit')
    /\ UNCHANGED RevFrame
RevPlus(n) ==
    /\ Idle
    /\ InRange(BaseIndex(rit) - n)
    /\ rit' = rit
    /\ last' = Rec("r+n", rit, NoIter, n, reverse_iterator_plus(rit, n))
    /\ UNCHANGED RevFrame
RevNPlus(n) ==
    /\ Idle
    /\ InRange(BaseIndex(rit) - n)
    /\ rit' = rit
    /\ last' = Rec("n+r", rit, NoIter, n, reverse_iterator_nplus(n, rit))
    /\ UNCHANGED RevFrame
RevMinus(n) ==
    /\ Idle
    /\ InRange(BaseIndex(rit) + n)
    /\ rit' = rit
    /\ last' = Rec("r-n", rit, NoIter, n, reverse_iterator_minus(rit, n))
    /\ UNCHANGED RevFrame
RevDiff(j) ==
    /\ Idle
    /\ rit' = rit
    /\ last' = Rec("ra-rb", rit, RPos(j), j, reverse_iterator_diff(rit, RPos(j)))
    /\ UNCHANGED RevFrame
RevCompare(j) ==
    /\ Idle
    /\ rit' = rit
    /\ last' = Rec("ra?rb", rit, RPos(j), j, Relations(reverse_iterator_eq(rit, RPos(j)), reverse_iterator_cmp(rit, RPos(j))))
    /\ UNCHANGED RevFrame
RevConvert(from, to) ==
    /\ Idle
    /\ LET src == IF from THEN reverse_iterator_conv(rit, TRUE) ELSE rit
       IN  last' = Rec("rconv", src, Flavour(to), 0,
                       IF reverse_iterator_convertible(from, to)
                       THEN reverse_iterator_conv(src, to) ELSE IllFormed)
    /\ UNCHANGED <<rit, RevFrame>>

\* The test loop: for (auto it = a.rbegin(); it != a.rend(); ++it) CHECK(* it == expected--);
LoopStart ==
    /\ Idle
    /\ pc' = "loop"
    /\ lit' = array_rbegin(FALSE)
    /\ visited' = <<>>
    /\ incs' = 0
    /\ last' = Rec("loop", NoIter, NoIter, 0, NoIter)
    /\ UNCHANGED <<N, _data, it, rit, cvars>>
LoopStep ==
    /\ pc = "loop"
    /\ ~reverse_iterator_eq(lit, array_rend(FALSE))
    /\ visited' = Append(visited, reverse_iterator_deref(lit))
    /\ lit' = reverse_iterator_preinc(lit)
    /\ incs' = incs + 1
    /\ UNCHANGED <<N, _data, it, rit, last, pc, cvars>>
LoopExit ==
    /\ pc = "loop"
    /\ reverse_iterator_eq(lit, array_rend(FALSE))
    /\ pc' = "done"
    /\ UNCHANGED <<N, _data, it, rit, last, lit, visited, incs, cvars>>
LoopReturn ==
    /\ pc = "done"
    /\ pc' = "idle"
    /\ lit' = NoIter
    /\ visited' = <<>>
    /\ incs' = 0
    /\ UNCHANGED <<N, _data, it, rit, last, cvars>>

Next ==
    \/ ItBegin \/ ItEnd \/ ItDeref \/ ItPreInc \/ ItPostInc \/ ItPreDec \/ ItPostDec
    \/ \E n \in (0 - MaxN)..MaxN : ItSubscript(n) \/ ItPlusEq(n) \/ ItMinusEq(n)
    \/ \E n \in (0 - MaxN)..MaxN : ItPlus(n) \/ ItNPlus(n) \/ ItMinus(n)
    \/ \E j \in 0..N : ItDiff(j) \/ ItCompare(j)
    \/ \E from, to \in BOOLEAN : ItConvert(from, to)
    \/ RevBegin \/ RevEnd \/ RevBase \/ RevDeref
    \/ RevPreInc \/ RevPostInc \/ RevPreDec \/ RevPostDec
    \/ \E j \in 0..N : RevWrap(j) \/ RevMake(j) \/ RevDiff(j) \/ RevCompare(j)
    \/ \E n \in (0 - MaxN)..MaxN : RevSubscript(n) \/ RevPlusEq(n) \/ RevMinusEq(n)
    \/ \E n \in (0 - MaxN)..MaxN : RevPlus(n) \/ RevNPlus(n) \/ RevMinus(n)
    \/ \E from, to \in BOOLEAN : RevConvert(from, to)
    \/ LoopStart \/ LoopStep \/ LoopExit \/ LoopReturn

Spec == Init /\ [][Next]_vars

\* The caller runs the loop to its end: each loop step is taken when enabled.
FairSpec == Spec /\ WF_vars(LoopStep) /\ WF_vars(LoopExit)

----------------------------------------------------------------------------
(* Section 4.2: the reverse adapter *)

\* C1: dereferencing a reverse adapter that wraps a position of index u in
\* [1, N] yields the element at index u - 1; *rbegin() is the element at
\* index N - 1, the element *(begin() + (N - 1)) names.
C1_ReverseDeref ==
    last.op = "*r" =>
        /\ \A u \in 1..N :
              last.arg = reverse_iterator(Pos(u)) =>
                  /\ last.res.slot = array_subscript(u - 1)
                  /\ last.res.val = _data[u - 1]
        /\ (N > 0 /\ last.arg = array_rbegin(FALSE)) =>
              /\ last.res.slot = array_subscript(N - 1)
              /\ last.res = Ref(array_iterator_deref(Pos(N - 1)))

C1_Witness ==
    /\ N > 1
    /\ last.op = "*r"
    /\ last.arg = array_rbegin(FALSE)
    /\ last.res = [slot |-> N - 1, val |-> _data[N - 1]]

\* C2: the loop from rbegin() to rend() (a) never makes more than N
\* increments, (b) has dereferenced, after i increments, exactly the slots
\* N-1, N-2, ..., N-i in that order, all inside [0, N), (c) goes on while
\* fewer than N increments were made and stops at the N-th, so it ends with
\* N increments and every slot visited once, and (d) does end.
C2_LoopInv ==
    /\ pc \in {"loop", "done"} =>
          /\ incs \in 0..N
          /\ Len(visited) = incs
          /\ \A k \in 1..Len(visited) :
                visited[k] = array_subscript(N - k) /\ visited[k] \in 0..(N - 1)
          /\ (pc = "loop" /\ incs < N) => ~reverse_iterator_eq(lit, array_rend(FALSE))
          /\ (pc = "loop" /\ incs = N) => reverse_iterator_eq(lit, array_rend(FALSE))
    /\ pc = "done" =>
          /\ incs = N
          /\ visited = [k \in 1..N |-> N - k]

C2_ReverseLoop == []C2_LoopInv /\ ((pc = "loop") ~> (pc = "done"))

C2_Witness ==
    /\ pc = "done"
    /\ N = 3
    /\ incs = 3
    /\ visited = <<2, 1, 0>>

C4_ReverseAdvance ==
    LET before == BaseIndex(last.arg)
    IN  /\ last.op \in {"++r", "r+=n", "--r", "r-=n"} => rit = last.res
        /\ last.op = "++r" => BaseIndex(last.res) = before - 1
        /\ last.op = "--r" => BaseIndex(last.res) = before + 1
        /\ last.op = "r++" => BaseIndex(rit) = before - 1
        /\ last.op = "r--" => BaseIndex(rit) = before + 1
        /\ last.op \in {"r+=n", "r+n", "n+r"} => BaseIndex(last.res) = before - last.n
        /\ last.op \in {"r-=n", "r-n"} => BaseIndex(last.res) = before + last.n

C4_Witness ==
    /\ last.op = "r+n"
    /\ last.n = 2
    /\ last.arg = array_rbegin(FALSE)
    /\ BaseIndex(last.res) = N - 2

\* C5: reverse adapters are ordered inversely to the positions they wrap:
\* a < b iff index(ua) > index(ub), a > b iff index(ua) < index(ub), and
\* a == b iff the indices are equal.
C5_ReverseOrder ==
    last.op = "ra?rb" =>
        LET ua == BaseIndex(last.arg)
            ub == BaseIndex(last.arg2)
        IN  /\ last.res.lt <=> ua > ub
            /\ last.res.gt <=> ua < ub
            /\ last.res.eq <=> ua = ub

C5_Witness ==
    /\ last.op = "ra?rb"
    /\ last.res.lt
    /\ ~last.res.gt
    /\ BaseIndex(last.arg) = 2
    /\ BaseIndex(last.arg2) = 1

\* C6: base() is the wrapped position itself, not the one before it:
\* reverse_iterator(u).base() == u, make_reverse_iterator(u).base() == u,
\* rbegin().base() == end() and rend().base() == begin().
C6_BaseUnchanged ==
    /\ last.op \in {"reverse_iterator", "make_reverse_iterator"} =>
          /\ reverse_iterator_base(last.res) = last.arg
          /\ array_iterator_eq(reverse_iterator_base(last.res), last.arg)
    /\ last.op = "base" =>
          /\ rit = last.arg
          /\ \A u \in 0..N : last.arg = reverse_iterator(Pos(u)) => last.res = Pos(u)
    /\ last.op = "rbegin" => reverse_iterator_base(last.res) = array_end(FALSE)
    /\ last.op = "rend" => reverse_iterator_base(last.res) = array_begin(FALSE)

C6_Witness ==
    /\ N > 1
    /\ last.op = "base"
    /\ last.arg = array_rbegin(FALSE)
    /\ last.res = array_end(FALSE)

----------------------------------------------------------------------------
(* Section 4.1: the position iterator *)

\* C7: *(begin() + k) is the element at index k for k in [0, N);
\* end() - begin() == N, so begin() == end() exactly when N == 0;
\* (p + n) - p == n and n + p == p + n.
C7_PositionRoundTrip ==
    /\ last.op = "*it" =>
          \A k \in 0..(N - 1) :
              last.arg = Pos(k) =>
                  last.res = [slot |-> array_subscript(k), val |-> _data[k]]
    /\ (last.op = "a-b" /\ last.arg = array_end(FALSE) /\ last.arg2 = array_begin(FALSE)) =>
          last.res = N
    /\ (last.op = "a?b" /\ last.arg = array_begin(FALSE) /\ last.arg2 = array_end(FALSE)) =>
          (last.res.eq <=> N = 0)
    /\ last.op = "it+n" => array_iterator_diff(last.res, last.arg) = last.n
    /\ last.op = "n+it" =>
          /\ array_iterator_eq(last.res, array_iterator_plus(last.arg, last.n))
          /\ Index(last.res) = Index(last.arg) + last.n

C7_Witness ==
    /\ N > 1
    /\ last.op = "*it"
    /\ last.arg = Pos(N - 1)
    /\ last.res = [slot |-> N - 1, val |-> _data[N - 1]]

\* C8: comparing two positions of one container is the total order of their
\* indices: exactly one of a < b, a == b, a > b holds, a == b iff the
\* indices are equal and a < b iff index(a) < index(b).
C8_PositionOrder ==
    last.op = "a?b" =>
        LET r == last.res
            ia == Index(last.arg)
            ib == Index(last.arg2)
        IN  /\ Cardinality({x \in {"lt", "eq", "gt"} : r[x]}) = 1
            /\ r.eq <=> ia = ib
            /\ r.lt <=> ia < ib
            /\ r.gt <=> ia > ib
            /\ \A i, j \in 0..N :
                  (last.arg = Pos(i) /\ last.arg2 = Pos(j)) => (r.lt <=> i < j)

C8_Witness ==
    /\ last.op = "a?b"
    /\ last.res.lt
    /\ ~last.res.eq
    /\ Index(last.arg) = 1
    /\ Index(last.arg2) = 2

\* C9: it[n] is the element at index i + n, the one *(it + n) names, for
\* negative n too; r[n] is *(r + n), the element at index b - 1 - n.
C9_Subscript ==
    /\ last.op = "it[n]" =>
          /\ last.res.slot = array_subscript(Index(last.arg) + last.n)
          /\ last.res.val = _data[Index(last.arg) + last.n]
          /\ last.res = Ref(array_iterator_deref(array_iterator_plus(last.arg, last.n)))
    /\ last.op = "r[n]" =>
          /\ last.res.slot = array_subscript(BaseIndex(last.arg) - 1 - last.n)
          /\ last.res.val = _data[BaseIndex(last.arg) - 1 - last.n]
          /\ last.res = Ref(reverse_iterator_deref(reverse_iterator_plus(last.arg, last.n)))

C9_Witness ==
    /\ last.op = "it[n]"
    /\ last.n < 0
    /\ Index(last.arg) = N
    /\ last.res = [slot |-> N + last.n, val |-> _data[N + last.n]]

\* C10: converting a mutable position, or a reverse adapter over one, to the
\* const flavour keeps the index: const_iterator(begin() + k) == cbegin() + k
\* for k in [0, N] and names the same element; a const one does not convert
\* to the mutable flavour.
C10_ConstConversion ==
    /\ last.op = "conv" =>
          /\ (~last.arg.IsConst /\ last.arg2.IsConst) =>
                /\ last.res.kind = "pos"
                /\ last.res.IsConst
                /\ Index(last.res) = Index(last.arg)
                /\ \A k \in 0..N :
                      last.arg = Pos(k) =>
                          array_iterator_eq(last.res, array_iterator_plus(array_begin(TRUE), k))
                /\ array_iterator_deref(last.res) = array_iterator_deref(last.arg)
          /\ (last.arg.IsConst /\ ~last.arg2.IsConst) => last.res = IllFormed
    /\ last.op = "rconv" =>
          LET WasConst == reverse_iterator_base(last.arg).IsConst
          IN  /\ (~WasConst /\ last.arg2.IsConst) =>
                    /\ last.res.kind = "rev"
                    /\ reverse_iterator_base(last.res).IsConst
                    /\ BaseIndex(last.res) = BaseIndex(last.arg)
              /\ (WasConst /\ ~last.arg2.IsConst) => last.res = IllFormed

C10_Witness ==
    /\ N > 1
    /\ last.op = "conv"
    /\ ~last.arg.IsConst
    /\ last.res = array_end(TRUE)

-----------------------------------------------------------------------------
(* array.hpp: the member functions of array<T, N>, as a caller uses them.  *)
(* The caller holds two arrays of the same type, the array whose storage   *)
(* is _data and a second one whose storage is other_data, makes at most    *)
(* MaxOps member calls and then lets both go out of scope.                 *)

MaxOps == 2
MaxVal == 1

\* The values the caller writes: none of them is an initial element.
NewValues == {0 - v : v \in 1..MaxVal}

\* How a call ended: it returned, or an exception left it.
Returned == [kind |-> "returned"]
Throw(what) == [kind |-> "throw", what |-> what]

\* Writing through a reference.
Store(d, slot, v) == IF slot \in DOMAIN d THEN [d EXCEPT ![slot] = v] ELSE d

\* A call can begin: both arrays exist and the caller is in no call.
Callable ==
    /\ pc = "idle"
    /\ scope = "both"
    /\ cpc = "idle"
    /\ ops < MaxOps

\* A faulty at() whose bound check lets pos == N through.
array_at_throws_past(pos) == pos > N
\* at(): if (pos >= N) throw std::out_of_range(...)
array_at_throws(pos) == pos >= N

\* A faulty at() that names the element after the one asked for.
array_at_next(pos) == 0 + pos + 1
\* at(): return _data[pos];
array_at(pos) == 0 + pos

\* a.at(pos), in the overload the constness of a selects
At(pos, c) ==
    /\ Callable
    /\ last' = Rec("at", Flavour(c), NoIter, pos,
                   IF array_at_throws(pos) THEN Throw("std::out_of_range")
                   ELSE Ref(array_at(pos)))
    /\ touched' = IF array_at_throws(pos) THEN touched
                  ELSE touched \union {array_at(pos)}
    /\ ops' = ops + 1
    /\ prev' = last
    /\ old_data' = _data
    /\ old_other' = other_data
    /\ UNCHANGED <<N, _data, ivars, other_data, scope, live, dtors, cpc, fi,
                   fval, copies_until_throw, writes, kept, p0>>

\* a.at(pos) = v
AtWrite(pos, v) ==
    /\ Callable
    /\ last' = Rec("at=", Flavour(FALSE), NoIter, pos,
                   IF array_at_throws(pos) THEN Throw("std::out_of_range")
                   ELSE [slot |-> array_at(pos), val |-> v])
    /\ _data' = IF array_at_throws(pos) THEN _data
                ELSE Store(_data, array_at(pos), v)
    /\ touched' = IF array_at_throws(pos) THEN touched
                  ELSE touched \union {array_at(pos)}
    /\ ops' = ops + 1
    /\ prev' = last
    /\ old_data' = _data
    /\ old_other' = other_data
    /\ UNCHANGED <<N, ivars, other_data, scope, live, dtors, cpc, fi,
                   fval, copies_until_throw, writes, kept, p0>>

\* a[pos], for pos < N: operator[] has no check, and pos >= N is outside
\* its contract.
Subscript(pos, c) ==
    /\ Callable
    /\ pos < N
    /\ last' = Rec("a[i]", Flavour(c), NoIter, pos, Ref(array_subscript(pos)))
    /\ touched' = touched \union {array_subscript(pos)}
    /\ ops' = ops + 1
    /\ prev' = last
    /\ old_data' = _data
    /\ old_other' = other_data
    /\ UNCHANGED <<N, _data, ivars, other_data, scope, live, dtors, cpc, fi,
                   fval, copies_until_throw, writes, kept, p0>>

\* a[pos] = v, for pos < N
SubscriptWrite(pos, v) ==
    /\ Callable
    /\ pos < N
    /\ last' = Rec("a[i]=", Flavour(FALSE), NoIter, pos,
                   [slot |-> array_subscript(pos), val |-> v])
    /\ _data' = Store(_data, array_subscript(pos), v)
    /\ touched' = touched \union {array_subscript(pos)}
    /\ ops' = ops + 1
    /\ prev' = last
    /\ old_data' = _data
    /\ old_other' = other_data
    /\ UNCHANGED <<N, ivars, other_data, scope, live, dtors, cpc, fi,
                   fval, copies_until_throw, writes, kept, p0>>

\* The caller of the element accessors.
AtNext ==
    \/ \E pos \in 0..(MaxN + 1), c \in BOOLEAN : At(pos, c)
    \/ \E pos \in 0..(MaxN + 1), v \in NewValues : AtWrite(pos, v)
    \/ \E pos \in 0..MaxN, c \in BOOLEAN : Subscript(pos, c)
    \/ \E pos \in 0..MaxN, v \in NewValues : SubscriptWrite(pos, v)

AtSpec == Init /\ [][AtNext]_vars

\* C11: at(i) fails with std::out_of_range for every i >= N (i == N, and
\* i == 0 of an empty array, included), in the const and in the non-const
\* overload, and the failed call leaves every element as it was.
C11_AtOutOfRange ==
    (last.op \in {"at", "at="} /\ last.n >= N) =>
        /\ last.res = Throw("std::out_of_range")
        /\ _data = old_data
        /\ other_data = old_other

C11_Witness ==
    /\ N > 0
    /\ last.op = "at"
    /\ last.arg = Flavour(TRUE)
    /\ last.n = N
    /\ last.res = Throw("std::out_of_range")
    /\ prev.op = "at="
    /\ prev.n < N

\* C12: for a valid index i < N, at(i) does not fail and names the slot
\* operator[](i) names: it reads the value a[i] reads, and a value written
\* through at(i) is the value a[i] reads afterwards.
C12_AtIsSubscript ==
    /\ (last.op = "at" /\ last.n < N) =>
          /\ last.res = Ref(array_subscript(last.n))
          /\ last.res.val = _data[last.n]
    /\ (last.op = "at=" /\ last.n < N) =>
          /\ last.res # Throw("std::out_of_range")
          /\ last.res.slot = array_subscript(last.n)
          /\ Ref(array_subscript(last.n)).val = last.res.val
          /\ \A j \in 0..(N - 1) : j # last.n => _data[j] = old_data[j]
    /\ (last.op = "a[i]" /\ prev.op = "at=" /\ prev.n = last.n /\ prev.n < N) =>
          last.res.val = prev.res.val

C12_Witness ==
    /\ last.op = "a[i]"
    /\ prev.op = "at="
    /\ prev.n = last.n
    /\ last.n = N - 1
    /\ last.res.val \in NewValues

-----------------------------------------------------------------------------
(* array.hpp: fill *)

\* A faulty fill whose loop runs over the storage, not over the N elements.
array_fill_cond_storage(i) == i < StorageLen(N)
\* A faulty fill whose loop stops one element early.
array_fill_cond_short(i) == i + 1 < N
\* fill(): for (size_type i = 0; i < N; ++i)
array_fill_cond(i) == i < N

\* A faulty fill that adds the value to the element.
array_fill_value_add(cur, value) == cur + value
\* fill(): _data[i] = value; what the element is assigned
array_fill_value(cur, value) == value

\* A faulty fill that puts the elements back when an assignment fails.
array_fill_unwind_restore(d, before) == before
\* fill() has no handler: the exception leaves it with the elements as the
\* loop has assigned them so far (basic guarantee).
array_fill_unwind(d, before) == d

\* ThrowingCopy::operator=(const ThrowingCopy& o):
\*     if (--copies_until_throw <= 0) throw std::runtime_error(...);
\*     val = o.val;
ThrowingCopy_assign(target, src, count) ==
    [val |-> IF count - 1 <= 0 THEN target ELSE src,
     count |-> count - 1,
     threw |-> count - 1 <= 0]

\* ThrowingCopy::copies_until_throw = c; a.fill(v): the call begins.
FillStart(v, c) ==
    /\ Callable
    /\ cpc' = "fill"
    /\ fi' = 0
    /\ fval' = v
    /\ copies_until_throw' = c
    /\ writes' = <<>>
    /\ last' = Rec("fill", [kind |-> "budget", count |-> c], NoIter, v, [kind |-> "running"])
    /\ ops' = ops + 1
    /\ prev' = last
    /\ old_data' = _data
    /\ old_other' = other_data
    /\ UNCHANGED <<N, _data, ivars, other_data, scope, live, dtors, touched,
                   kept, p0>>

\* One turn of the loop: _data[i] = value, which may throw.
FillStep ==
    /\ cpc = "fill"
    /\ array_fill_cond(fi)
    /\ LET r == ThrowingCopy_assign(_data[fi], array_fill_value(_data[fi], fval),
                                    copies_until_throw)
       IN  /\ copies_until_throw' = r.count
           /\ _data' = IF r.threw
                       THEN array_fill_unwind(Store(_data, fi, r.val), old_data)
                       ELSE Store(_data, fi, r.val)
           /\ cpc' = IF r.threw THEN "idle" ELSE "fill"
           /\ fi' = IF r.threw THEN fi ELSE fi + 1
           /\ writes' = IF r.threw THEN writes ELSE Append(writes, fi)
           /\ last' = IF r.threw
                      THEN Rec(last.op, last.arg, last.arg2, last.n,
                               Throw("std::runtime_error"))
                      ELSE last
    /\ touched' = touched \union {fi}
    /\ UNCHANGED <<N, ivars, other_data, scope, live, dtors, ops, fval,
                   old_data, old_other, prev, kept, p0>>

\* The loop condition fails: fill returns.
FillReturn ==
    /\ cpc = "fill"
    /\ ~array_fill_cond(fi)
    /\ cpc' = "idle"
    /\ last' = Rec(last.op, last.arg, last.arg2, last.n, Returned)
    /\ UNCHANGED <<N, _data, ivars, other_data, scope, live, dtors, ops, fi,
                   fval, copies_until_throw, writes, touched, old_data,
                   old_other, prev, kept, p0>>

-----------------------------------------------------------------------------
(* array.hpp: the elements an array owns.  The arrays are locals of one    *)
(* block, destroyed in the reverse order of their declaration.             *)

\* The second array goes out of scope.
ExitOther ==
    /\ pc = "idle"
    /\ cpc = "idle"
    /\ scope = "both"
    /\ scope' = "a"
    /\ live' = live - array_destroy(N)
    /\ dtors' = array_destroy(N)
    /\ UNCHANGED <<N, _data, last, ivars, other_data, ops, cpc, fi, fval,
                   copies_until_throw, writes, touched, old_data, old_other,
                   prev, kept, p0>>

\* The array goes out of scope.
ExitArray ==
    /\ scope = "a"
    /\ scope' = "none"
    /\ live' = live - array_destroy(N)
    /\ dtors' = array_destroy(N)
    /\ UNCHANGED <<N, _data, last, ivars, other_data, ops, cpc, fi, fval,
                   copies_until_throw, writes, touched, old_data, old_other,
                   prev, kept, p0>>

\* The caller of fill: it fills, with or without a failing assignment, and
\* leaves the block.
FillSpec ==
    /\ Init
    /\ [][
        \/ \E v \in NewValues, c \in (1..(MaxN + 1)) \union {copies_until_throw_default} :
              FillStart(v, c)
        \/ FillStep
        \/ FillReturn
        \/ ExitOther
        \/ ExitArray
       ]_vars

\* C13: when fill(v) returns, every slot 0..N-1 holds v, the slots were
\* assigned in increasing index order, N assignments were made and nothing
\* else was written; a fill of an empty array assigns nothing and returns.
C13_FillAll ==
    /\ (last.op = "fill" /\ last.res = Returned) =>
          /\ \A i \in 0..(N - 1) : _data[i] = last.n
          /\ writes = [j \in 1..N |-> j - 1]
          /\ Len(writes) = N
          /\ other_data = old_other
    /\ (last.op = "fill" /\ N = 0 /\ cpc = "idle") =>
          /\ last.res = Returned
          /\ writes = <<>>
          /\ _data = old_data

C13_Witness ==
    /\ N = MaxN
    /\ last.op = "fill"
    /\ last.res = Returned
    /\ Len(writes) = N
    /\ \A i \in 0..(N - 1) : old_data[i] # _data[i]

\* C14: when the assignment to slot k fails during fill(v), the slots
\* before k hold v, slot k and the slots after it hold their old values
\* (the failing assignment does not change its target), no later
\* assignment is attempted and the exception reaches the caller.
C14_FillFailure ==
    (last.op = "fill" /\ last.res = Throw("std::runtime_error")) =>
        LET k == Len(writes)
        IN  /\ k < N
            /\ cpc = "idle"
            /\ fi = k
            /\ writes = [j \in 1..k |-> j - 1]
            /\ \A i \in 0..(k - 1) : _data[i] = last.n
            /\ \A i \in k..(N - 1) : _data[i] = old_data[i]
            /\ copies_until_throw = 0
            /\ last.arg.count = k + 1
            /\ other_data = old_other

C14_Witness ==
    /\ N = MaxN
    /\ last.op = "fill"
    /\ last.res = Throw("std::runtime_error")
    /\ Len(writes) = N - 1
    /\ _data[0] = last.n
    /\ _data[N - 2] = last.n
    /\ _data[N - 1] = old_data[N - 1]
    /\ old_data[0] # last.n

\* C17: fill is idempotent: a fill(v) that follows a fill(v) leaves every
\* element, the size and the storage address as the first one left them.
C17_FillIdempotent ==
    (/\ last.op = "fill"
     /\ last.res = Returned
     /\ prev.op = "fill"
     /\ prev.res = Returned
     /\ prev.n = last.n) =>
        /\ _data = old_data
        /\ other_data = old_other
        /\ DOMAIN _data = DOMAIN old_data
        /\ array_data = p0

C17_Witness ==
    /\ N = MaxN
    /\ last.op = "fill"
    /\ last.res = Returned
    /\ prev.op = "fill"
    /\ prev.res = Returned
    /\ prev.n = last.n
    /\ _data[N - 1] = last.n

\* C19: an array<T, N> owns exactly N element objects for every N, N == 0
\* included: N are live for each array that exists, and N destructors run
\* when one goes out of scope, after which none of its objects is live.
\* The empty array breaks it: its storage is one element, constructed and
\* destroyed with the array.
C19_OwnsExactlyN ==
    /\ scope = "both" => live = N + N
    /\ scope = "a" => (live = N /\ dtors = N)
    /\ scope = "none" => (live = 0 /\ dtors = N)

-----------------------------------------------------------------------------
(* array.hpp: swap.  The two operands are named "a" (storage _data) and    *)
(* "b" (storage other_data); in a self-swap both names are the same array. *)

Obj(name) == [kind |-> "array", name |-> name]

Memory(d, o) == [a |-> d, b |-> o]
MemLoad(m, obj, i) == IF obj = "a" THEN m.a[i] ELSE m.b[i]
MemStore(m, obj, i, v) ==
    IF obj = "a" THEN [a |-> Store(m.a, i, v), b |-> m.b]
    ELSE [a |-> m.a, b |-> Store(m.b, i, v)]

\* A faulty swap whose loop stops one element early.
array_swap_cond_short(i) == i + 1 < N
\* swap(): for (size_type i = 0; i < N; ++i)
array_swap_cond(i) == i < N

\* A faulty exchange without a temporary: x += y; y = x - y; x -= y.
std_swap_arith(m, x, y, i) ==
    LET m1 == MemStore(m, x, i, MemLoad(m, x, i) + MemLoad(m, y, i))
        m2 == MemStore(m1, y, i, MemLoad(m1, x, i) - MemLoad(m1, y, i))
    IN  MemStore(m2, x, i, MemLoad(m2, x, i) - MemLoad(m2, y, i))
\* std::swap(_data[i], other._data[i]):
\*     T tmp = std::move(x); x = std::move(y); y = std::move(tmp);
std_swap(m, x, y, i) ==
    LET tmp == MemLoad(m, x, i)
        m1 == MemStore(m, x, i, MemLoad(m, y, i))
    IN  MemStore(m1, y, i, tmp)

\* std::swap(x, y) on two ThrowingCopy, which has no move operations:
\*     T tmp(std::move(x));   copy constructor, counts down, may throw
\*     x = std::move(y);      copy assignment, counts down, may throw
\*     y = std::move(tmp);    copy assignment, counts down, may throw
\* The result is the memory, the counter, and whether an exception left.
ThrowingCopy_swap(m, x, y, i, count) ==
    IF count - 1 <= 0 THEN <<m, count - 1, TRUE>>
    ELSE IF count - 2 <= 0 THEN <<m, count - 2, TRUE>>
    ELSE IF count - 3 <= 0
         THEN <<MemStore(m, x, i, MemLoad(m, y, i)), count - 3, TRUE>>
    ELSE <<std_swap(m, x, y, i), count - 3, FALSE>>

\* A faulty swap that puts both arrays back when an element swap fails.
array_swap_unwind_restore(m, before) == before
\* swap() has no handler: the exception leaves it with the pairs as the
\* loop has exchanged them so far.
array_swap_unwind(m, before) == m

\* x.swap(y), or the free function swap(x, y), which calls x.swap(y); the
\* counter is at its default, which no swap exhausts.
SwapStart(x, y, free) ==
    /\ Callable
    /\ cpc' = "swap"
    /\ fi' = 0
    /\ writes' = <<>>
    /\ last' = Rec(IF free THEN "swap(x, y)" ELSE "x.swap(y)",
                   Obj(x), Obj(y), 0, [kind |-> "running"])
    /\ copies_until_throw' = copies_until_throw_default
    /\ ops' = ops + 1
    /\ prev' = last
    /\ old_data' = _data
    /\ old_other' = other_data
    /\ UNCHANGED <<N, _data, ivars, other_data, scope, live, dtors, fval,
                   touched, kept, p0>>

\* ThrowingCopy::copies_until_throw = c; a.swap(y): the element swaps can fail.
SwapStartThrowing(y, c) ==
    /\ Callable
    /\ cpc' = "swap"
    /\ fi' = 0
    /\ writes' = <<>>
    /\ last' = Rec("x.swap(y)", Obj("a"), Obj(y), c, [kind |-> "running"])
    /\ copies_until_throw' = c
    /\ ops' = ops + 1
    /\ prev' = last
    /\ old_data' = _data
    /\ old_other' = other_data
    /\ UNCHANGED <<N, _data, ivars, other_data, scope, live, dtors, fval,
                   touched, kept, p0>>

\* One turn of the loop: std::swap(_data[i], other._data[i]), which may throw.
SwapStep ==
    /\ cpc = "swap"
    /\ array_swap_cond(fi)
    /\ LET r == ThrowingCopy_swap(Memory(_data, other_data), last.arg.name,
                                  last.arg2.name, fi, copies_until_throw)
           threw == r[3]
           m == IF threw
                THEN array_swap_unwind(r[1], Memory(old_data, old_other))
                ELSE r[1]
       IN  /\ _data' = m.a
           /\ other_data' = m.b
           /\ copies_until_throw' = r[2]
           /\ cpc' = IF threw THEN "idle" ELSE "swap"
           /\ fi' = IF threw THEN fi ELSE fi + 1
           /\ writes' = IF threw THEN writes ELSE Append(writes, fi)
           /\ last' = IF threw
                      THEN Rec(last.op, last.arg, last.arg2, last.n,
                               Throw("std::runtime_error"))
                      ELSE last
    /\ touched' = touched \union {fi}
    /\ UNCHANGED <<N, ivars, scope, live, dtors, ops, fval, old_data,
                   old_other, prev, kept, p0>>

\* The loop condition fails: swap returns.
SwapReturn ==
    /\ cpc = "swap"
    /\ ~array_swap_cond(fi)
    /\ cpc' = "idle"
    /\ last' = Rec(last.op, last.arg, last.arg2, last.n, Returned)
    /\ UNCHANGED <<N, _data, ivars, other_data, scope, live, dtors, ops, fi,
                   fval, copies_until_throw, writes, touched, old_data,
                   old_other, prev, kept, p0>>

\* The caller of swap.
SwapNext ==
    \/ \E x \in {"a", "b"}, y \in {"a", "b"}, free \in BOOLEAN :
          SwapStart(x, y, free)
    \/ SwapStep
    \/ SwapReturn

SwapSpec == Init /\ [][SwapNext]_vars


\* C15: after x.swap(y) or swap(x, y) on two distinct arrays of the same N,
\* each array holds at every index i < N what the other held before.
C15_SwapExchanges ==
    (last.op \in {"x.swap(y)", "swap(x, y)"} /\ last.res = Returned /\ last.arg # last.arg2) =>
        \A i \in 0..(N - 1) :
            /\ _data[i] = old_other[i]
            /\ other_data[i] = old_data[i]

C15_Witness ==
    /\ N = MaxN
    /\ last.op = "swap(x, y)"
    /\ prev.op = "x.swap(y)"
    /\ last.res = Returned
    /\ last.arg = Obj("a")
    /\ last.arg2 = Obj("b")
    /\ \A i \in 0..(N - 1) : _data[i] = old_other[i] /\ _data[i] # old_data[i]

\* C16: a self-swap changes nothing: after a.swap(a) every element has the
\* value it had before the call.
C16_SelfSwap ==
    (last.op \in {"x.swap(y)", "swap(x, y)"} /\ last.res = Returned /\ last.arg = last.arg2) =>
        /\ _data = old_data
        /\ other_data = old_other

C16_Witness ==
    /\ N = MaxN
    /\ last.op = "x.swap(y)"
    /\ last.res = Returned
    /\ last.arg = Obj("a")
    /\ last.arg2 = Obj("a")
    /\ Len(writes) = N
    /\ prev.op = "x.swap(y)"
    /\ prev.arg2 = Obj("b")

-----------------------------------------------------------------------------
(* array.hpp: iteration over the whole array, and positions kept across    *)
(* modifying calls.                                                        *)

\* for (auto i = first; i != lst; ++i) use(*i): the slots the loop reads
RECURSIVE range_slots(_, _)
range_slots(first, lst) ==
    IF Iter_eq(first, lst) THEN <<>>
    ELSE <<Iter_deref(first)>> \o range_slots(Iter_preinc(first), lst)

\* for (int v : a) ..., or the same loop over [rbegin(), rend())
Iterate(rev) ==
    /\ Callable
    /\ LET q == IF rev THEN range_slots(array_rbegin(FALSE), array_rend(FALSE))
                ELSE range_slots(array_begin(FALSE), array_end(FALSE))
       IN  /\ last' = Rec(IF rev THEN "rfor" ELSE "for", NoIter, NoIter,
                          Len(q), Returned)
           /\ touched' = touched \union {q[j] : j \in 1..Len(q)}
    /\ ops' = ops + 1
    /\ prev' = last
    /\ old_data' = _data
    /\ old_other' = other_data
    /\ UNCHANGED <<N, _data, ivars, other_data, scope, live, dtors, cpc, fi,
                   fval, copies_until_throw, writes, kept, p0>>

\* auto it = a.begin() + k; const T* const p0 = a.data(); before any call
Obtain(k) ==
    /\ Callable
    /\ ops = 0
    /\ last.op = "init"
    /\ k \in 0..N
    /\ it' = array_iterator_plus(array_begin(FALSE), k)
    /\ kept' = k
    /\ p0' = array_data
    /\ last' = Rec("obtain", NoIter, NoIter, k, it')
    /\ UNCHANGED <<N, _data, rit, pc, lit, visited, incs, other_data, scope,
                   live, dtors, ops, cpc, fi, fval, copies_until_throw,
                   writes, touched, old_data, old_other, prev>>

\* The caller that keeps a position and then modifies the arrays.
StableSpec ==
    /\ Init
    /\ [][
        \/ \E k \in 0..MaxN : Obtain(k)
        \/ \E pos \in 0..MaxN, v \in NewValues : SubscriptWrite(pos, v)
        \/ \E v \in NewValues, c \in (1..(MaxN + 1)) \union {copies_until_throw_default} :
              FillStart(v, c)
        \/ FillStep
        \/ FillReturn
        \/ \E x \in {"a", "b"}, y \in {"a", "b"} : SwapStart(x, y, FALSE)
        \/ SwapStep
        \/ SwapReturn
       ]_vars

\* The caller of every member function.
ArraySpec ==
    /\ Init
    /\ [][
        \/ AtNext
        \/ \E v \in NewValues, c \in (1..(MaxN + 1)) \union {copies_until_throw_default} :
              FillStart(v, c)
        \/ FillStep
        \/ FillReturn
        \/ SwapNext
        \/ \E rev \in BOOLEAN : Iterate(rev)
       ]_vars

\* C18: storage is stable and positions stay valid: after any fill, swap
\* (as either operand) and element writes, data() is the address obtained
\* before, the position obtained at index k equals begin() + k, and it
\* names the array's current a[k]: the filled value after a fill, the
\* written value after a write to k, the other array's old element after a
\* swap with it.
C18_StableStorage ==
    /\ array_data = p0
    /\ array_iterator_eq(it, array_iterator_plus(array_begin(FALSE), kept))
    /\ kept < N =>
          LET seen == Ref(array_iterator_deref(it)).val
          IN  /\ seen = Ref(array_subscript(kept)).val
              /\ (last.op = "fill" /\ last.res = Returned) => seen = last.n
              /\ (last.op = "a[i]=" /\ last.n = kept) => seen = last.res.val
              /\ (last.op \in {"x.swap(y)", "swap(x, y)"} /\ last.res = Returned /\ last.arg # last.arg2) =>
                    seen = old_other[kept]

C18_Witness ==
    /\ N = MaxN
    /\ kept = N - 1
    /\ ops = MaxOps
    /\ last.op \in {"x.swap(y)", "swap(x, y)"}
    /\ last.res = Returned
    /\ last.arg = Obj("b")
    /\ last.arg2 = Obj("a")
    /\ prev.op = "fill"
    /\ prev.res = Returned
    /\ Ref(array_iterator_deref(it)).val = old_other[kept]
    /\ other_data[kept] = prev.n

-----------------------------------------------------------------------------
(* array.hpp: capacity, data() and the iterator pairs, queried between     *)
(* modifying calls.                                                        *)

\* A faulty size() that counts the storage, not the elements.
array_size_storage == StorageLen(N)
\* size(): return N;
array_size == N
\* max_size(): return N;
array_max_size == N
\* empty(): return N == 0;
array_empty == (N = 0)

\* a.size(), a.max_size(), a.empty()
Capacity ==
    /\ Callable
    /\ last' = Rec("capacity", NoIter, NoIter, 0,
                   <<array_size, array_max_size, array_empty>>)
    /\ ops' = ops + 1
    /\ prev' = last
    /\ old_data' = _data
    /\ old_other' = other_data
    /\ UNCHANGED <<N, _data, ivars, other_data, scope, live, dtors, cpc, fi,
                   fval, copies_until_throw, writes, touched, kept, p0>>

\* a.data(), and the element it points at
Data ==
    /\ Callable
    /\ last' = Rec("data", NoIter, NoIter, 0, Ref(array_data))
    /\ ops' = ops + 1
    /\ prev' = last
    /\ old_data' = _data
    /\ old_other' = other_data
    /\ UNCHANGED <<N, _data, ivars, other_data, scope, live, dtors, cpc, fi,
                   fval, copies_until_throw, writes, touched, kept, p0>>

\* a.begin() == a.end(), or a.cbegin() == a.cend()
BeginIsEnd(c) ==
    /\ Callable
    /\ last' = Rec("begin==end", Flavour(c), NoIter, 0,
                   array_iterator_eq(array_begin(c), array_end(c)))
    /\ ops' = ops + 1
    /\ prev' = last
    /\ old_data' = _data
    /\ old_other' = other_data
    /\ UNCHANGED <<N, _data, ivars, other_data, scope, live, dtors, cpc, fi,
                   fval, copies_until_throw, writes, touched, kept, p0>>

\* a.rbegin() == a.rend(), or a.crbegin() == a.crend()
RBeginIsREnd(c) ==
    /\ Callable
    /\ last' = Rec("rbegin==rend", Flavour(c), NoIter, 0,
                   reverse_iterator_eq(array_rbegin(c), array_rend(c)))
    /\ ops' = ops + 1
    /\ prev' = last
    /\ old_data' = _data
    /\ old_other' = other_data
    /\ UNCHANGED <<N, _data, ivars, other_data, scope, live, dtors, cpc, fi,
                   fval, copies_until_throw, writes, touched, kept, p0>>

\* The caller that queries the array between modifying calls.
QuerySpec ==
    /\ Init
    /\ [][
        \/ Capacity
        \/ Data
        \/ \E c \in BOOLEAN : BeginIsEnd(c)
        \/ \E c \in BOOLEAN : RBeginIsREnd(c)
        \/ \E pos \in 0..(MaxN + 1), c \in BOOLEAN : At(pos, c)
        \/ \E pos \in 0..MaxN, v \in NewValues : SubscriptWrite(pos, v)
        \/ \E v \in NewValues, c \in (1..(MaxN + 1)) \union {copies_until_throw_default} :
              FillStart(v, c)
        \/ FillStep
        \/ FillReturn
        \/ \E x \in {"a", "b"}, y \in {"a", "b"} : SwapStart(x, y, FALSE)
        \/ SwapStep
        \/ SwapReturn
       ]_vars

\* C21: for an empty array begin() == end(), cbegin() == cend(),
\* rbegin() == rend(), data() points at an object (it is not null) and
\* at(0) throws std::out_of_range; for N > 0 data() is the address of
\* element 0.
C21_EmptyArray ==
    /\ N = 0 =>
          /\ last.op = "begin==end" => last.res = TRUE
          /\ last.op = "rbegin==rend" => last.res = TRUE
          /\ last.op = "data" => last.res.slot \in 0..(StorageLen(N) - 1)
          /\ (last.op = "at" /\ last.n = 0) => last.res = Throw("std::out_of_range")
    /\ N > 0 =>
          /\ last.op = "data" => last.res = Ref(array_subscript(0))

C21_Witness ==
    /\ N = 0
    /\ last.op = "begin==end"
    /\ last.arg = Flavour(TRUE)
    /\ last.res = TRUE
    /\ prev.op = "data"
    /\ prev.res.slot = 0

\* C22: size() == max_size() == N and empty() == (N == 0) for every N,
\* whatever fills, swaps, element writes and failed at() calls came before.
C22_Capacity ==
    last.op = "capacity" => last.res = <<N, N, N = 0>>

C22_Witness ==
    /\ N = MaxN
    /\ last.op = "capacity"
    /\ last.res = <<N, N, FALSE>>
    /\ prev.op = "fill"
    /\ prev.res = Throw("std::runtime_error")

-----------------------------------------------------------------------------
(* array.hpp: the comparison operators of two arrays of the same type.     *)
(* The operands are any two arrays over a small range of element values.   *)

MaxElem == 1

\* std::equal(first1, last1, first2):
\*     for (; first1 != last1; ++first1, ++first2)
\*         if (!(*first1 == *first2)) return false;
\*     return true;
\* d1 and d2 are the storage the two ranges point into.
RECURSIVE std_equal(_, _, _, _, _)
std_equal(first1, last1, first2, d1, d2) ==
    IF array_iterator_eq(first1, last1) THEN TRUE
    ELSE IF d1[array_iterator_deref(first1)] # d2[array_iterator_deref(first2)]
         THEN FALSE
    ELSE std_equal(array_iterator_preinc(first1), last1,
                   array_iterator_preinc(first2), d1, d2)

\* std::lexicographical_compare_three_way(first1, last1, first2, last2):
\* the first element pair that is not equivalent decides; otherwise the
\* range that ends first is the lesser.
RECURSIVE std_lexicographical_compare_three_way(_, _, _, _, _, _)
std_lexicographical_compare_three_way(first1, last1, first2, last2, d1, d2) ==
    IF array_iterator_eq(first1, last1)
    THEN (IF array_iterator_eq(first2, last2) THEN "equal" ELSE "less")
    ELSE IF array_iterator_eq(first2, last2) THEN "greater"
    ELSE LET x == d1[array_iterator_deref(first1)]
             y == d2[array_iterator_deref(first2)]
         IN  IF x < y THEN "less"
             ELSE IF x > y THEN "greater"
             ELSE std_lexicographical_compare_three_way(
                      array_iterator_preinc(first1), last1,
                      array_iterator_preinc(first2), last2, d1, d2)

\* A faulty operator== that compares the first elements only.
array_eq_first(d1, d2) == N = 0 \/ d1[0] = d2[0]
\* operator==(lhs, rhs): std::equal(lhs.begin(), lhs.end(), rhs.begin())
array_eq(d1, d2) ==
    std_equal(array_begin(TRUE), array_end(TRUE), array_begin(TRUE), d1, d2)

\* A faulty operator<=> that the last differing element decides.
array_cmp_last(d1, d2) ==
    LET diff == {k \in 0..(N - 1) : d1[k] # d2[k]}
    IN  IF diff = {} THEN "equal"
        ELSE LET k == CHOOSE j \in diff : \A m \in diff : m <= j
             IN  IF d1[k] < d2[k] THEN "less" ELSE "greater"
\* operator<=>(lhs, rhs): std::lexicographical_compare_three_way(
\*     lhs.begin(), lhs.end(), rhs.begin(), rhs.end())
array_cmp(d1, d2) ==
    std_lexicographical_compare_three_way(
        array_begin(TRUE), array_end(TRUE),
        array_begin(TRUE), array_end(TRUE), d1, d2)

\* Two arrays of N elements each, of any element values.
CompareInit ==
    /\ N \in 0..MaxN
    /\ _data \in [0..(StorageLen(N) - 1) -> 0..MaxElem]
    /\ other_data \in [0..(StorageLen(N) - 1) -> 0..MaxElem]
    /\ it = array_begin(FALSE)
    /\ rit = array_rbegin(FALSE)
    /\ last = Rec("init", NoIter, NoIter, 0, NoIter)
    /\ pc = "idle"
    /\ lit = NoIter
    /\ visited = <<>>
    /\ incs = 0
    /\ scope = "both"
    /\ live = array_construct(N) + array_construct(N)
    /\ dtors = 0
    /\ ops = 0
    /\ cpc = "idle"
    /\ fi = 0
    /\ fval = 0
    /\ copies_until_throw = copies_until_throw_default
    /\ writes = <<>>
    /\ touched = {}
    /\ old_data = _data
    /\ old_other = other_data
    /\ prev = Rec("init", NoIter, NoIter, 0, NoIter)
    /\ kept = 0
    /\ p0 = array_data

\* a == b, a != b, a <=> b and the operators the language rewrites from
\* them; swapped makes b the left operand.
Compare(swapped) ==
    /\ Callable
    /\ LET lhs == IF swapped THEN other_data ELSE _data
           rhs == IF swapped THEN _data ELSE other_data
       IN  last' = Rec("lhs?rhs", Obj(IF swapped THEN "b" ELSE "a"),
                       Obj(IF swapped THEN "a" ELSE "b"), 0,
                       Relations(array_eq(lhs, rhs), array_cmp(lhs, rhs)))
    /\ ops' = ops + 1
    /\ prev' = last
    /\ old_data' = _data
    /\ old_other' = other_data
    /\ UNCHANGED <<N, _data, ivars, other_data, scope, live, dtors, cpc, fi,
                   fval, copies_until_throw, writes, touched, kept, p0>>

CompareSpec ==
    /\ CompareInit
    /\ [][
        \E swapped \in BOOLEAN : Compare(swapped)
       ]_vars

\* C23: the three-way comparison of two arrays is lexicographic: a < b iff
\* at the first index where they differ a's element is the lesser, whatever
\* follows; a <=> b is equal iff no index differs; two empty arrays are
\* equal, not less, and both <= and >=.
C23_Lexicographic ==
    LET Lhs == IF last.arg.name = "a" THEN _data ELSE other_data
        Rhs == IF last.arg.name = "a" THEN other_data ELSE _data
        Differ == {k \in 0..(N - 1) : Lhs[k] # Rhs[k]}
    IN  last.op = "lhs?rhs" =>
            /\ last.res.lt <=>
                  \E k \in Differ :
                      /\ \A j \in Differ : k <= j
                      /\ Lhs[k] < Rhs[k]
            /\ last.res.gt <=>
                  \E k \in Differ :
                      /\ \A j \in Differ : k <= j
                      /\ Lhs[k] > Rhs[k]
            /\ (last.res.cmp = "equal") <=> (Differ = {})
            /\ last.res.le <=> ~last.res.gt
            /\ last.res.ge <=> ~last.res.lt
            /\ N = 0 =>
                  /\ last.res.cmp = "equal"
                  /\ ~last.res.lt
                  /\ last.res.le
                  /\ last.res.ge

C23_Witness ==
    /\ N = 3
    /\ last.op = "lhs?rhs"
    /\ last.arg = Obj("a")
    /\ _data[0] < other_data[0]
    /\ _data[1] > other_data[1]
    /\ _data[2] > other_data[2]
    /\ last.res.lt
    /\ ~last.res.ge

\* C24: a == b iff a[i] == b[i] for every i < N; a != b is its negation;
\* and a == b holds exactly when a <=> b is equal.
C24_Equality ==
    last.op = "lhs?rhs" =>
        /\ last.res.eq <=>
              \A i \in 0..(N - 1) :
                  IF last.arg.name = "a" THEN _data[i] = other_data[i]
                                          ELSE other_data[i] = _data[i]
        /\ last.res.ne <=> ~last.res.eq
        /\ last.res.eq <=> (last.res.cmp = "equal")

C24_Witness ==
    /\ N = 3
    /\ last.op = "lhs?rhs"
    /\ _data[0] = other_data[0]
    /\ _data[1] = other_data[1]
    /\ _data[2] # other_data[2]
    /\ ~last.res.eq
    /\ last.res.ne
    /\ prev.op = "lhs?rhs"

-----------------------------------------------------------------------------
(* array.hpp: front and back *)

\* front() / back(): static_assert(N > 0, ...): a call on an empty array
\* does not compile.
array_front_well_formed == N > 0

\* front(): return _data[0];
array_front == 0 + 0

\* A faulty back() that names the slot past the last element.
array_back_end == 0 + N
\* back(): return _data[N - 1];
array_back == 0 + (N - 1)

\* a.front() or a.back(), in the overload the constness of a selects
FrontBack(back, c) ==
    /\ Callable
    /\ LET slot == IF back THEN array_back ELSE array_front
       IN  /\ last' = Rec(IF back THEN "back" ELSE "front", Flavour(c), NoIter, 0,
                          IF array_front_well_formed THEN Ref(slot) ELSE IllFormed)
           /\ touched' = IF array_front_well_formed THEN touched \union {slot}
                         ELSE touched
    /\ ops' = ops + 1
    /\ prev' = last
    /\ old_data' = _data
    /\ old_other' = other_data
    /\ UNCHANGED <<N, _data, ivars, other_data, scope, live, dtors, cpc, fi,
                   fval, copies_until_throw, writes, kept, p0>>

\* a.front() = v or a.back() = v
FrontBackWrite(back, v) ==
    /\ Callable
    /\ LET slot == IF back THEN array_back ELSE array_front
       IN  /\ last' = Rec(IF back THEN "back=" ELSE "front=", Flavour(FALSE),
                          NoIter, 0,
                          IF array_front_well_formed
                          THEN [slot |-> slot, val |-> v] ELSE IllFormed)
           /\ _data' = IF array_front_well_formed THEN Store(_data, slot, v)
                       ELSE _data
           /\ touched' = IF array_front_well_formed THEN touched \union {slot}
                         ELSE touched
    /\ ops' = ops + 1
    /\ prev' = last
    /\ old_data' = _data
    /\ old_other' = other_data
    /\ UNCHANGED <<N, ivars, other_data, scope, live, dtors, cpc, fi,
                   fval, copies_until_throw, writes, kept, p0>>

\* The caller of front and back, who reads the elements back through a[i].
FrontSpec ==
    /\ Init
    /\ [][
        \/ \E back \in BOOLEAN, c \in BOOLEAN : FrontBack(back, c)
        \/ \E back \in BOOLEAN, v \in NewValues : FrontBackWrite(back, v)
        \/ \E pos \in 0..MaxN, c \in BOOLEAN : Subscript(pos, c)
       ]_vars

\* C25: for N > 0 front() names slot 0 and back() names slot N - 1, the
\* slots a[0] and a[N - 1] name, for reads and for writes, and the two
\* coincide when N == 1; for N == 0 a call of either does not compile, so
\* nothing is evaluated on an empty array.
C25_FrontBack ==
    /\ (N = 0 /\ last.op \in {"front", "back", "front=", "back="}) =>
          /\ last.res = IllFormed
          /\ _data = old_data
          /\ touched = {}
    /\ (N > 0 /\ last.op = "front") => last.res = Ref(array_subscript(0))
    /\ (N > 0 /\ last.op = "back") => last.res = Ref(array_subscript(N - 1))
    /\ (N > 0 /\ last.op = "front=") =>
          /\ last.res.slot = array_subscript(0)
          /\ Ref(array_subscript(0)).val = last.res.val
          /\ \A j \in 1..(N - 1) : _data[j] = old_data[j]
    /\ (N > 0 /\ last.op = "back=") =>
          /\ last.res.slot = array_subscript(N - 1)
          /\ Ref(array_subscript(N - 1)).val = last.res.val
          /\ \A j \in 0..(N - 2) : _data[j] = old_data[j]
    /\ (N = 1 /\ last.op \in {"front", "back"}) => last.res = Ref(0)
    /\ (last.op = "a[i]" /\ prev.op = "front=" /\ last.n = 0) =>
          last.res.val = prev.res.val
    /\ (last.op = "a[i]" /\ prev.op = "back=" /\ last.n = N - 1) =>
          last.res.val = prev.res.val

C25_Witness ==
    /\ N = MaxN
    /\ last.op = "a[i]"
    /\ last.n = N - 1
    /\ prev.op = "back="
    /\ last.res.val = prev.res.val
    /\ last.res.val \in NewValues
    /\ old_data[N - 1] = last.res.val

-----------------------------------------------------------------------------
(* iterator.hpp: the iterator tags *)

\* array_iterator: using iterator_category = std::random_access_iterator_tag;
array_iterator_category == "random_access"
\* array_iterator: using iterator_concept = std::contiguous_iterator_tag;
array_iterator_concept == "contiguous"

\* A faulty demotion that passes every tag through.
demote_contiguous_none(Category) == Category
\* detail::demote_contiguous<Category>::type
demote_contiguous(Category) ==
    IF Category = "contiguous" THEN "random_access" ELSE Category

\* reverse_iterator<Iter>::iterator_category, for Iter::iterator_category
reverse_iterator_category(IterCategory) == demote_contiguous(IterCategory)

\* typename reverse_iterator<Iter>::iterator_category, for an Iter whose
\* iterator_category is tag; nested wraps the adapter in a second one.
RevCategory(tag, nested) ==
    /\ Idle
    /\ last' = Rec("iterator_category", NoIter, NoIter, 0,
                   <<tag, IF nested
                          THEN reverse_iterator_category(reverse_iterator_category(tag))
                          ELSE reverse_iterator_category(tag)>>)
    /\ UNCHANGED <<it, PosFrame>>

\* typename array<T, N>::reverse_iterator::iterator_category
ArrayRevCategory ==
    /\ Idle
    /\ last' = Rec("array iterator_category", NoIter, NoIter, 0,
                   <<array_iterator_concept, array_iterator_category,
                     reverse_iterator_category(array_iterator_category)>>)
    /\ UNCHANGED <<it, PosFrame>>

\* The caller of section "The caller", who also asks the adapters for
\* their tags.
TraitsSpec ==
    /\ Init
    /\ [][
        \/ Next
        \/ \E tag \in {"input", "forward", "bidirectional", "random_access",
                       "contiguous"}, nested \in BOOLEAN : RevCategory(tag, nested)
        \/ ArrayRevCategory
       ]_vars

\* C26: a reverse adapter never has the contiguous tag: over an iterator
\* whose tag is contiguous its tag is random-access, every other tag is
\* passed through; over the array's iterator (concept contiguous, category
\* random-access) its tag is random-access.
C26_CategoryDemotion ==
    /\ last.op = "iterator_category" =>
          /\ last.res[2] # "contiguous"
          /\ last.res[1] = "contiguous" => last.res[2] = "random_access"
          /\ last.res[1] # "contiguous" => last.res[2] = last.res[1]
    /\ last.op = "array iterator_category" =>
          last.res = <<"contiguous", "random_access", "random_access">>

C26_Witness ==
    /\ last.op = "iterator_category"
    /\ last.res = <<"contiguous", "random_access">>
    /\ it = array_end(FALSE)
    /\ N = MaxN

-----------------------------------------------------------------------------
(* array_test.cpp: "fill provides basic guarantee when T copy-assign       *)
(* throws": a 5-element array of ThrowingCopy, every element 1, is filled  *)
(* with 99 after copies_until_throw is set.                                *)

\* stlish::array<ThrowingCopy, 5> a;
TestN == 5
\* for (auto& x : a) x = ThrowingCopy{1};
TestOld == 1
\* ThrowingCopy::copies_until_throw = 2;
TestBudget == 2
\* ThrowingCopy val{99};
TestNew == 99

\* The array of the test, after the loop that sets every element to 1.
FillTestInit ==
    /\ N = TestN
    /\ _data = [i \in 0..(TestN - 1) |-> TestOld]
    /\ other_data = [i \in 0..(TestN - 1) |-> TestOld]
    /\ it = array_begin(FALSE)
    /\ rit = array_rbegin(FALSE)
    /\ last = Rec("init", NoIter, NoIter, 0, NoIter)
    /\ pc = "idle"
    /\ lit = NoIter
    /\ visited = <<>>
    /\ incs = 0
    /\ scope = "both"
    /\ live = array_construct(N) + array_construct(N)
    /\ dtors = 0
    /\ ops = 0
    /\ cpc = "idle"
    /\ fi = 0
    /\ fval = 0
    /\ copies_until_throw = copies_until_throw_default
    /\ writes = <<>>
    /\ touched = {}
    /\ old_data = _data
    /\ old_other = other_data
    /\ prev = Rec("init", NoIter, NoIter, 0, NoIter)
    /\ kept = 0
    /\ p0 = array_data

\* The test, with the counter set to 2 as written or to any other value
\* that lets the fill begin.
FillTestSpec ==
    /\ FillTestInit
    /\ [][
        \/ \E c \in 1..(TestN + 1) : FillStart(TestNew, c)
        \/ FillStep
        \/ FillReturn
       ]_vars

\* C27: with copies_until_throw = 2, fill(99) on the 5-element array makes
\* 2 assignments and throws on the 3rd: elements 0..1 hold 99 and elements
\* 2..4 still hold 1.  The code throws on the 2nd assignment: only element
\* 0 holds 99.
C27_ThrowsOnThird ==
    (/\ N = TestN
     /\ last.op = "fill"
     /\ last.arg.count = TestBudget
     /\ old_data = [i \in 0..(TestN - 1) |-> TestOld]
     /\ cpc = "idle") =>
        /\ last.res = Throw("std::runtime_error")
        /\ Len(writes) = 2
        /\ _data[0] = TestNew
        /\ _data[1] = TestNew
        /\ \A i \in 2..(TestN - 1) : _data[i] = TestOld

-----------------------------------------------------------------------------
(* iterator.hpp: increments and decrements, checked on the iterator        *)
(* expressions of section "The caller".                                    *)

\* C28: for the position iterator and for the reverse adapter, it++ and
\* it-- return a copy that names the position before the step while the
\* iterator itself moves by exactly one; ++it and --it return the iterator
\* after the step.  The adapter moves in its own direction: ++ takes it to
\* the element of the next lower index.
C28_PrePostStep ==
    /\ last.op = "it++" =>
          /\ last.res = last.arg
          /\ Index(it) = Index(last.arg) + 1
    /\ last.op = "it--" =>
          /\ last.res = last.arg
          /\ Index(it) = Index(last.arg) - 1
    /\ last.op = "++it" =>
          /\ last.res = it
          /\ Index(it) = Index(last.arg) + 1
    /\ last.op = "--it" =>
          /\ last.res = it
          /\ Index(it) = Index(last.arg) - 1
    /\ last.op = "r++" =>
          /\ last.res = last.arg
          /\ BaseIndex(rit) = BaseIndex(last.arg) - 1
          /\ Derefable(BaseIndex(rit) - 1) =>
                reverse_iterator_deref(rit) = reverse_iterator_deref(last.arg) - 1
    /\ last.op = "r--" =>
          /\ last.res = last.arg
          /\ BaseIndex(rit) = BaseIndex(last.arg) + 1
    /\ last.op = "++r" =>
          /\ last.res = rit
          /\ BaseIndex(rit) = BaseIndex(last.arg) - 1
    /\ last.op = "--r" =>
          /\ last.res = rit
          /\ BaseIndex(rit) = BaseIndex(last.arg) + 1

C28_Witness ==
    /\ N = MaxN
    /\ last.op = "it++"
    /\ last.res = array_begin(FALSE)
    /\ Index(it) = 1
    /\ rit = reverse_iterator(Pos(N - 1))

-----------------------------------------------------------------------------
(* iterator.hpp: reverse_iterator<reverse_iterator<array_iterator>>.  In   *)
(* this section rit holds an adapter of an adapter of a position.          *)

\* The position inside a double adapter: rr.base().base()
Innermost(rr) == reverse_iterator_base(reverse_iterator_base(rr))

\* rr = reverse_iterator(reverse_iterator(begin() + j))
NestWrap(j) ==
    /\ Idle
    /\ InRange(j)
    /\ rit' = reverse_iterator(reverse_iterator(Pos(j)))
    /\ last' = Rec("rr", Pos(j), NoIter, j, rit')
    /\ UNCHANGED RevFrame

\* *rr
NestDeref ==
    /\ Idle
    /\ rit.kind = "rev" /\ rit.current_.kind = "rev"
    /\ Derefable(Index(Innermost(rit)))
    /\ rit' = rit
    /\ last' = Rec("*rr", rit, NoIter, 0, Ref(reverse_iterator_deref(rit)))
    /\ UNCHANGED RevFrame

\* ++rr
NestPreInc ==
    /\ Idle
    /\ rit.kind = "rev" /\ rit.current_.kind = "rev"
    /\ InRange(Index(Innermost(rit)) + 1)
    /\ rit' = reverse_iterator_preinc(rit)
    /\ last' = Rec("++rr", rit, NoIter, 1, rit')
    /\ UNCHANGED RevFrame

\* rr - reverse_iterator(reverse_iterator(begin() + j))
NestDiff(j) ==
    /\ Idle
    /\ rit.kind = "rev" /\ rit.current_.kind = "rev"
    /\ InRange(j)
    /\ rit' = rit
    /\ last' = Rec("rr-rr", rit, reverse_iterator(RPos(j)), j, reverse_iterator_diff(rit, reverse_iterator(RPos(j))))
    /\ UNCHANGED RevFrame

\* rr == s, rr <=> s and the rewritten operators, for s over begin() + j
NestCompare(j) ==
    /\ Idle
    /\ rit.kind = "rev" /\ rit.current_.kind = "rev"
    /\ InRange(j)
    /\ rit' = rit
    /\ last' = Rec("rr?rr", rit, reverse_iterator(RPos(j)), j,
                   Relations(reverse_iterator_eq(rit, reverse_iterator(RPos(j))),
                             reverse_iterator_cmp(rit, reverse_iterator(RPos(j)))))
    /\ UNCHANGED RevFrame

NestSpec ==
    /\ Init
    /\ [][
        \/ \E j \in 0..MaxN : NestWrap(j)
        \/ NestDeref
        \/ NestPreInc
        \/ \E j \in 0..MaxN : NestDiff(j)
        \/ \E j \in 0..MaxN : NestCompare(j)
       ]_vars

\* C29: an adapter of an adapter behaves as the position inside: for a
\* position u of index in [0, N), reverse(reverse(u)) dereferences to the
\* element at u's index, ++ advances the innermost index by one, and the
\* difference and the ordering of two double adapters are those of the
\* positions inside.
C29_DoubleReverse ==
    /\ last.op = "*rr" =>
          /\ last.res = Ref(array_iterator_deref(Innermost(last.arg)))
          /\ last.res.val = _data[Index(Innermost(last.arg))]
    /\ last.op = "++rr" =>
          /\ Index(Innermost(rit)) = Index(Innermost(last.arg)) + 1
          /\ last.res = rit
    /\ last.op = "rr-rr" =>
          last.res = array_iterator_diff(Innermost(last.arg), Innermost(last.arg2))
    /\ last.op = "rr?rr" =>
          last.res = Relations(
              array_iterator_eq(Innermost(last.arg), Innermost(last.arg2)),
              array_iterator_cmp(Innermost(last.arg), Innermost(last.arg2)))

C29_Witness ==
    /\ N = MaxN
    /\ last.op = "*rr"
    /\ Index(Innermost(rit)) = N - 1
    /\ last.res.slot = N - 1
    /\ last.res.val = _data[N - 1]

-----------------------------------------------------------------------------
(* array.hpp: swap of arrays whose element swap can fail *)

\* The caller of a.swap(y) on ThrowingCopy elements.
SwapFailSpec ==
    /\ Init
    /\ [][
        \/ \E y \in {"a", "b"}, c \in 1..(3 * MaxN + 1) : SwapStartThrowing(y, c)
        \/ \E y \in {"a", "b"} : SwapStart("a", y, FALSE)
        \/ SwapStep
        \/ SwapReturn
       ]_vars

\* C30: swap fails only when an element swap fails and does not roll back:
\* if the element swap at index k throws during a.swap(b), the pairs before
\* k are exchanged, the pairs after k are untouched in both arrays, no
\* further pair is processed and the exception reaches the caller; when
\* the element swaps cannot fail, swap returns after exactly N element
\* swaps in increasing index order.
C30_SwapFailure ==
    /\ (last.op \in {"x.swap(y)", "swap(x, y)"} /\ last.res = Throw("std::runtime_error")) =>
          LET k == Len(writes)
              Now(obj) == IF obj.name = "a" THEN _data ELSE other_data
              Before(obj) == IF obj.name = "a" THEN old_data ELSE old_other
          IN  /\ k < N
              /\ cpc = "idle"
              /\ fi = k
              /\ writes = [j \in 1..k |-> j - 1]
              /\ copies_until_throw <= 0
              /\ \A i \in 0..(k - 1) :
                    /\ Now(last.arg)[i] = Before(last.arg2)[i]
                    /\ Now(last.arg2)[i] = Before(last.arg)[i]
              /\ \A i \in (k + 1)..(N - 1) :
                    /\ _data[i] = old_data[i]
                    /\ other_data[i] = old_other[i]
    /\ (last.op \in {"x.swap(y)", "swap(x, y)"} /\ cpc = "idle" /\ last.n = 0) =>
          /\ last.res = Returned
          /\ writes = [j \in 1..N |-> j - 1]
    /\ (last.op \in {"x.swap(y)", "swap(x, y)"} /\ cpc = "idle" /\ copies_until_throw > 0) =>
          last.res = Returned

C30_Witness ==
    /\ N = MaxN
    /\ last.op \in {"x.swap(y)", "swap(x, y)"}
    /\ last.arg2 = Obj("b")
    /\ last.res = Throw("std::runtime_error")
    /\ Len(writes) = 1
    /\ _data[0] = old_other[0]
    /\ other_data[0] = old_data[0]
    /\ _data[1] = old_other[1]
    /\ other_data[1] = old_other[1]
    /\ _data[2] = old_data[2]
    /\ other_data[2] = old_other[2]

====
